---- MODULE Spec2Model ----
(***************************************************************************)
(* A model of src/TestingSum.py: the Gateway (chat), the Context           *)
(* Identifier (identify_context), the Deck Summarizer (summarize_deck) and *)
(* the session handler (main).                                             *)
(*                                                                         *)
(* Text is a sequence of one-character strings, so that strip, lower,      *)
(* split, replace and "in" are computed as Python computes them.           *)
(***************************************************************************)
EXTENDS Integers, Sequences, FiniteSets, TLC

VARIABLES
    gw,        \* SpecChat: one call of chat
    sp,        \* SpecSplit: one per-slide response and its split
    pr,        \* SpecPrompt: one deck and its context prompt
    idc,       \* SpecIdentify: one call of identify_context
    uploader,  \* Spec: the file held by st.file_uploader
    session,   \* Spec: st.session_state, a dict
    cache,     \* Spec: the st.cache_data stores of identify_context and summarize_deck
    pc,        \* Spec: "idle", or the Gateway call the running handler waits for
    frame,     \* Spec: the locals of the running handler
    run,       \* Spec: history, the call of summarize_deck by the latest handler
    last,      \* Spec: history, how the latest handler ended ("running" until then)
    origin     \* Spec: history, the slides session["summaries"] was computed from

app == <<uploader, session, cache, pc, frame, run, last, origin>>

pure == <<gw, sp, pr, idc>>

vars == <<gw, sp, pr, idc, uploader, session, cache, pc, frame, run, last, origin>>

(***************************************************************************)
(* Python str operations                                                   *)
(***************************************************************************)
Whitespace == {" ", "\n"}

RECURSIVE LStrip(_)
LStrip(s) ==
    IF s # <<>> /\ Head(s) \in Whitespace THEN LStrip(Tail(s)) ELSE s

RECURSIVE RStrip(_)
RStrip(s) ==
    IF s # <<>> /\ s[Len(s)] \in Whitespace
    THEN RStrip(SubSeq(s, 1, Len(s) - 1))
    ELSE s

\* str.strip()
Strip(s) == RStrip(LStrip(s))

\* s[n:]
Drop(s, n) == SubSeq(s, n + 1, Len(s))

\* s.startswith(p)
StartsWith(s, p) == Len(s) >= Len(p) /\ SubSeq(s, 1, Len(p)) = p

\* sub in s
Contains(s, sub) ==
    \E k \in 0..(Len(s) - Len(sub)) : SubSeq(s, k + 1, k + Len(sub)) = sub

\* str.lower(), on the letters the model's texts use
LowerChar(c) ==
    CASE c = "A" -> "a"
      [] c = "P" -> "p"
      [] c = "T" -> "t"
      [] c = "U" -> "u"
      [] OTHER -> c

Lower(s) == [k \in 1..Len(s) |-> LowerChar(s[k])]

\* str.split(sep): the pieces between the non-overlapping occurrences of sep,
\* found left to right
RECURSIVE SplitFrom(_, _, _)
SplitFrom(s, sep, cur) ==
    IF s = <<>> THEN <<cur>>
    ELSE IF StartsWith(s, sep)
         THEN <<cur>> \o SplitFrom(Drop(s, Len(sep)), sep, <<>>)
         ELSE SplitFrom(Tail(s), sep, Append(cur, Head(s)))

Split(s, sep) == SplitFrom(s, sep, <<>>)

\* str.replace(old, new): every non-overlapping occurrence, left to right
RECURSIVE Replace(_, _, _)
Replace(s, old, new) ==
    IF s = <<>> THEN <<>>
    ELSE IF StartsWith(s, old)
         THEN new \o Replace(Drop(s, Len(old)), old, new)
         ELSE <<Head(s)>> \o Replace(Tail(s), old, new)

(***************************************************************************)
(* The session before anything is uploaded                                 *)
(***************************************************************************)
NoFile == [name |-> "", presentation |-> <<>>]

EmptyDict == <<>>

EmptyFrame ==
    [slides |-> <<>>, ev |-> "none", idx |-> 0, ident_attempt |-> 0, attempt |-> 0,
     ctx |-> <<>>, deck_summary |-> <<>>, slide_sums |-> <<>>, design_notes |-> <<>>,
     layouts |-> <<>>, charts |-> <<>>]

NoRun ==
    [state |-> "none", slides |-> <<>>, log |-> <<>>, returned |-> 0,
     retried |-> FALSE, ctx_cached |-> FALSE]

AppIdle ==
    /\ uploader = NoFile
    /\ session = EmptyDict
    /\ cache = [identify_context |-> EmptyDict, summarize_deck |-> EmptyDict]
    /\ pc = "idle"
    /\ frame = EmptyFrame
    /\ run = NoRun
    /\ last = "return"
    /\ origin = <<>>

(***************************************************************************)
(* chat(system, user, temperature, max_attempts)                           *)
(***************************************************************************)
MaxAttempts == 4

DefaultMaxAttempts == 2

Errors == {"APIConnectionError", "RateLimitError"}

Completions == {<<"o", "k">>, <<" ", "o", "k", "\n">>}

\* One pass through the body of the retry loop, the request having succeeded
\* (ok) or failed: what the loop does next.
ChatAttemptOffByOne(attempt, max_attempts, ok) ==
    IF ok THEN "return"
    ELSE IF attempt = max_attempts THEN "raise" ELSE "sleep"

ChatAttempt(attempt, max_attempts, ok) ==
    IF ok THEN "return"
    ELSE IF attempt + 1 = max_attempts THEN "raise" ELSE "sleep"

\* gw: one call of chat. outcomes is the list of what each request sent so far
\* came to ("ok" or the error raised); result and error are meaningful when pc
\* is "returned" and "raised".
ChatStart(m) ==
    [pc |-> IF m > 0 THEN "request" ELSE "returned_none",
     max_attempts |-> m, attempt |-> 0, requests |-> 0,
     outcomes |-> <<>>, content |-> <<>>, result |-> <<>>, error |-> "none"]

ChatInit ==
    /\ gw \in {ChatStart(m) : m \in 0..MaxAttempts}
    /\ sp = <<>> /\ pr = <<>> /\ idc = <<>>
    /\ AppIdle

\* client.chat.completions.create(...) answers: return its stripped text
ChatRequestOk(c) ==
    /\ gw.pc = "request"
    /\ ChatAttempt(gw.attempt, gw.max_attempts, TRUE) = "return"
    /\ gw' = [gw EXCEPT !.pc = "returned",
                        !.requests = @ + 1,
                        !.outcomes = Append(@, "ok"),
                        !.content = c,
                        !.result = Strip(c)]

\* client.chat.completions.create(...) raises e
ChatRequestFail(e) ==
    /\ gw.pc = "request"
    /\ LET next == ChatAttempt(gw.attempt, gw.max_attempts, FALSE)
       IN  gw' = [gw EXCEPT !.pc = IF next = "raise" THEN "raised" ELSE "sleep",
                            !.requests = @ + 1,
                            !.outcomes = Append(@, e),
                            !.error = IF next = "raise" THEN e ELSE @]

\* time.sleep(1.5), then the next value of range(max_attempts), if any
ChatSleep ==
    /\ gw.pc = "sleep"
    /\ gw' = [gw EXCEPT !.attempt = @ + 1,
                        !.pc = IF gw.attempt + 1 < gw.max_attempts
                               THEN "request" ELSE "returned_none"]

ChatNext ==
    \/ \E c \in Completions : ChatRequestOk(c) /\ UNCHANGED <<sp, pr, idc, app>>
    \/ \E e \in Errors : ChatRequestFail(e) /\ UNCHANGED <<sp, pr, idc, app>>
    \/ ChatSleep /\ UNCHANGED <<sp, pr, idc, app>>

SpecChat == ChatInit /\ [][ChatNext]_vars

AllFailed(outcomes) == \A k \in 1..Len(outcomes) : outcomes[k] # "ok"

\* C1: for max_attempts >= 1, one request is sent per attempt, never more than
\* max_attempts in all; chat returns exactly when a request succeeds, with that
\* request's text and with no request after it; and when max_attempts requests
\* have all failed it raises the failure of the last one.
ChatRetryContract ==
    gw.max_attempts >= 1 =>
        /\ gw.requests = gw.attempt + (IF gw.pc = "request" THEN 0 ELSE 1)
        /\ gw.requests <= gw.max_attempts
        /\ gw.pc # "returned_none"
        /\ AllFailed(SubSeq(gw.outcomes, 1, Len(gw.outcomes) - 1))
        /\ gw.pc = "returned" <=>
               (gw.outcomes # <<>> /\ gw.outcomes[Len(gw.outcomes)] = "ok")
        /\ gw.pc = "returned" => gw.result = Strip(gw.content)
        /\ gw.pc = "raised" <=>
               (Len(gw.outcomes) = gw.max_attempts /\ AllFailed(gw.outcomes))
        /\ gw.pc = "raised" => gw.error = gw.outcomes[gw.max_attempts]

\* fail, fail with max_attempts = 2: raised after exactly 2 requests
ChatExhausted ==
    /\ gw.max_attempts = 2
    /\ gw.pc = "raised"
    /\ gw.requests = 2
    /\ gw.outcomes = <<"RateLimitError", "APIConnectionError">>
    /\ gw.error = "APIConnectionError"

(***************************************************************************)
(* The per-slide response split of summarize_deck                          *)
(***************************************************************************)
MaxRespLen == 5

RespChars == {"1", "2", ".", " ", "a"}

RECURSIVE TextsUpTo(_)
TextsUpTo(n) ==
    IF n = 0 THEN {<<>>}
    ELSE LET shorter == TextsUpTo(n - 1)
         IN  shorter \cup {Append(t, c) : t \in shorter, c \in RespChars}

Marker == <<"2", ".">>

\* the one-character text U+2014 (em dash)
Placeholder == <<"U+2014">>

\* parts = resp.split("2.")
SplitParts(resp) == Split(resp, Marker)

\* parts[0].replace("1.", "").strip() if parts else resp
KeyPointNoReplace(resp) ==
    LET parts == SplitParts(resp)
    IN  IF parts # <<>> THEN Strip(parts[1]) ELSE resp

KeyPoint(resp) ==
    LET parts == SplitParts(resp)
    IN  IF parts # <<>> THEN Strip(Replace(parts[1], <<"1", ".">>, <<>>)) ELSE resp

\* parts[1].strip() if len(parts) > 1 else U+2014
DesignTip(resp) ==
    LET parts == SplitParts(resp)
    IN  IF Len(parts) > 1 THEN Strip(parts[2]) ELSE Placeholder

\* sp: one response of the key point call, as chat returns it (stripped), and
\* what the loop body appends to slide_sums and design_notes for it.
SplitInit ==
    /\ sp \in {[pc |-> "resp", resp |-> Strip(c), key |-> <<>>, tip |-> <<>>] :
                  c \in TextsUpTo(MaxRespLen)}
    /\ gw = <<>> /\ pr = <<>> /\ idc = <<>>
    /\ AppIdle

SplitResponse ==
    /\ sp.pc = "resp"
    /\ sp' = [sp EXCEPT !.pc = "split",
                        !.key = KeyPoint(sp.resp),
                        !.tip = DesignTip(sp.resp)]

SplitNext == SplitResponse /\ UNCHANGED <<gw, pr, idc, app>>

SpecSplit == SplitInit /\ [][SplitNext]_vars

\* The text before and after the first occurrence of the marker, by position
HasMarker(s) == Contains(s, Marker)

FirstMarker(s) ==
    CHOOSE k \in 0..(Len(s) - 2) :
        /\ SubSeq(s, k + 1, k + 2) = Marker
        /\ \A j \in 0..(k - 1) : SubSeq(s, j + 1, j + 2) # Marker

BeforeMarker(s) == IF HasMarker(s) THEN SubSeq(s, 1, FirstMarker(s)) ELSE s

AfterMarker(s) == Drop(s, FirstMarker(s) + 2)

\* C10 as stated: without the marker the whole response is the key point and
\* the tip is the placeholder; with it the key point is the text before the
\* first marker and the tip the text after it (surrounding whitespace aside).
SplitAsStated ==
    sp.pc = "split" =>
        IF HasMarker(sp.resp)
        THEN /\ sp.key = Strip(BeforeMarker(sp.resp))
             /\ sp.tip = Strip(AfterMarker(sp.resp))
        ELSE /\ sp.key = sp.resp
             /\ sp.tip = Placeholder

\* C10 amended: the key point is the text before the first marker (the whole
\* response without one) with every "1." removed and then trimmed; the tip is
\* the placeholder without a marker, and otherwise the text between the first
\* marker and the next one (or the end), trimmed.
SplitAsCoded ==
    sp.pc = "split" =>
        /\ sp.key = Strip(Replace(BeforeMarker(sp.resp), <<"1", ".">>, <<>>))
        /\ IF HasMarker(sp.resp)
           THEN sp.tip = Strip(BeforeMarker(AfterMarker(sp.resp)))
           ELSE sp.tip = Placeholder

\* "1.a2.a": key point "a", design tip "a"
SplitNumbered ==
    /\ sp.pc = "split"
    /\ sp.resp = <<"1", ".", "a", "2", ".">>
    /\ sp.key = <<"a">>
    /\ sp.tip = <<>>

(***************************************************************************)
(* identify_context: the context prompt                                    *)
(***************************************************************************)
MaxSlides == 8

ContextWindow == 7

NoText == <<>>

TitleText == <<"T", "i", "t", "l", "e">>

AgendaText == <<"A", "g", "e", "n", "d", "a">>

TitledAgendaText == <<"a", "g", "e", "n", "d", "a", " ", "t", "i", "t", "l", "e">>

PlainText == <<"a", "b">>

NotesText == <<"n">>

\* What extract_slide_data can give for one slide, its slide_number aside:
\* a slide without text (with or without notes) and four slides with text
EmptyBodies ==
    <<[slide_text |-> NoText, notes_text |-> NotesText, has_notes |-> TRUE],
      [slide_text |-> NoText, notes_text |-> <<>>, has_notes |-> FALSE]>>

FilledBodies ==
    <<[slide_text |-> TitleText, notes_text |-> <<>>, has_notes |-> FALSE],
      [slide_text |-> AgendaText, notes_text |-> NotesText, has_notes |-> TRUE],
      [slide_text |-> PlainText, notes_text |-> <<>>, has_notes |-> FALSE],
      [slide_text |-> TitledAgendaText, notes_text |-> <<>>, has_notes |-> FALSE]>>

\* enumerate(prs.slides, 1): slide_number is the position in the deck
Numbered(bodies) ==
    [k \in 1..Len(bodies) |->
        [slide_number |-> k,
         slide_text |-> bodies[k].slide_text,
         notes_text |-> bodies[k].notes_text,
         has_notes |-> bodies[k].has_notes]]

\* The decks of n slides: every pattern of slides with and without text, the
\* bodies taken in rotation from the samples above, starting from any of them
DecksOf(n) ==
    {[k \in 1..n |->
        IF filled[k]
        THEN FilledBodies[((k + shift) % Len(FilledBodies)) + 1]
        ELSE EmptyBodies[((k + shift) % Len(EmptyBodies)) + 1]] :
       filled \in [1..n -> BOOLEAN], shift \in 0..(Len(FilledBodies) - 1)}

DecksUpTo(n) == UNION {DecksOf(m) : m \in 0..n}

Min(a, b) == IF a < b THEN a ELSE b

HasText(d) == Strip(d.slide_text) # <<>>

\* for d in slides[:min(7, len(slides))]: if d['slide_text'].strip(): append
ContextSlidesFirstNonEmpty(slides) ==
    LET filled == SelectSeq(slides, HasText)
    IN  SubSeq(filled, 1, Min(ContextWindow, Len(filled)))

ContextSlides(slides) ==
    SelectSeq(SubSeq(slides, 1, Min(ContextWindow, Len(slides))), HasText)

\* One context block. The text is kept in its parts: the heading line (for an
\* untagged block "Slide <number>:"), the slide text, and the NOTES line if any.
ContextBlock(d) ==
    LET is_title_slide ==
            (d.slide_number = 1) \/ Contains(Lower(d.slide_text), Lower(TitleText))
        head ==
            IF is_title_slide THEN <<"TITLE SLIDE:">>
            ELSE IF Contains(Lower(d.slide_text), Lower(AgendaText))
                 THEN <<"AGENDA SLIDE:">>
                 ELSE <<"Slide", d.slide_number, ":">>
    IN  [head |-> head,
         text |-> d.slide_text,
         notes |-> IF d.has_notes THEN <<d.notes_text>> ELSE <<>>]

ContextBlocks(slides) ==
    LET context_slides == ContextSlides(slides)
    IN  [k \in 1..Len(context_slides) |-> ContextBlock(context_slides[k])]

\* pr: a deck handed to identify_context and the prompt built from it
PromptInit ==
    /\ pr \in {[pc |-> "slides", slides |-> Numbered(d),
                context_slides |-> <<>>, context_blocks |-> <<>>] :
                  d \in DecksUpTo(MaxSlides)}
    /\ gw = <<>> /\ sp = <<>> /\ idc = <<>>
    /\ AppIdle

BuildPrompt ==
    /\ pr.pc = "slides"
    /\ pr' = [pr EXCEPT !.pc = "prompt",
                        !.context_slides = ContextSlides(pr.slides),
                        !.context_blocks = ContextBlocks(pr.slides)]

PromptNext == BuildPrompt /\ UNCHANGED <<gw, sp, idc, app>>

SpecPrompt == PromptInit /\ [][PromptNext]_vars

\* The slide numbers of a sequence of slide records
Numbers(ds) == [k \in 1..Len(ds) |-> ds[k].slide_number]

IsIncreasing(ns) == \A j, k \in 1..Len(ns) : j < k => ns[j] < ns[k]

Picked(n) == \E k \in 1..Len(pr.context_slides) : pr.context_slides[k].slide_number = n

FilledBefore(n) == Cardinality({m \in 1..(n - 1) : pr.slides[m].slide_text # <<>>})

\* The tagging half of C8: block k is built from context slide k; it is a TITLE
\* block for slide 1 and for a text containing "title" in any case, else an
\* AGENDA block for a text containing "agenda", else a block headed by the
\* slide's number.
TaggedAsStated ==
    /\ Len(pr.context_blocks) = Len(pr.context_slides)
    /\ \A k \in 1..Len(pr.context_slides) :
          LET d == pr.context_slides[k]
              b == pr.context_blocks[k]
              low == Lower(d.slide_text)
              titled == Contains(low, <<"t", "i", "t", "l", "e">>)
              agenda == Contains(low, <<"a", "g", "e", "n", "d", "a">>)
          IN  /\ d = pr.slides[d.slide_number]
              /\ b.text = d.slide_text
              /\ (d.slide_number = 1 \/ titled) => b.head = <<"TITLE SLIDE:">>
              /\ (d.slide_number # 1 /\ ~titled /\ agenda) => b.head = <<"AGENDA SLIDE:">>
              /\ (d.slide_number # 1 /\ ~titled /\ ~agenda) =>
                     b.head = <<"Slide", d.slide_number, ":">>

IdentifyAttempts == 3

FinalAttempt == 2

Unknown == <<"U", "n", "k", "n", "o", "w", "n">>

allowed_purposes ==
    {<<"i", "n", "f", "o", "r", "m">>,
     <<"p", "e", "r", "s", "u", "a", "d", "e">>,
     <<"p", "r", "o", "p", "o", "s", "e">>,
     <<"e", "d", "u", "c", "a", "t", "e">>,
     <<"r", "e", "p", "o", "r", "t">>,
     <<"p", "i", "t", "c", "h">>,
     <<"r", "e", "v", "i", "e", "w">>}

\* The values json.loads can give for a key of the response, by Python type;
\* Absent stands for a key the object does not have.
Str(s) == [type |-> "str", s |-> s]

JsonNumber == [type |-> "int", s |-> <<>>]

JsonNull == [type |-> "NoneType", s |-> <<>>]

Absent == [type |-> "absent", s |-> <<>>]

Keys == {"topic", "region", "purpose"}

\* A response text, by what json.loads makes of it: "text" is not JSON,
\* "list" is JSON that is no object, "dict" is a JSON object with these keys.
NoFields == [k \in Keys |-> Absent]

NotJson == [kind |-> "text", fields |-> NoFields]

JsonList == [kind |-> "list", fields |-> NoFields]

JsonDict(topic, region, purpose) ==
    [kind |-> "dict",
     fields |-> [topic |-> topic, region |-> region, purpose |-> purpose]]

TopicValues == {Absent, JsonNumber, Str(<<" ">>), Str(<<"a", "i">>)}

RegionValues == {Absent, Str(<<"e", "u">>)}

PurposeValues ==
    {Absent, JsonNull,
     Str(<<" ", "P", "i", "t", "c", "h">>),
     Str(<<"r", "e", "v", "i", "e", "w">>),
     Str(<<"t", "r", "a", "p">>),
     Str(Unknown)}

ContextResponses ==
    {NotJson, JsonList}
    \cup {JsonDict(t, r, p) : t \in TopicValues, r \in RegionValues, p \in PurposeValues}

AllUnknown == [topic |-> Unknown, region |-> Unknown, purpose |-> Unknown]

\* context.get(key, "Unknown")
Get(context, key) ==
    IF context.fields[key].type = "absent" THEN Str(Unknown) ELSE context.fields[key]

\* x or "Unknown"
OrUnknown(x) == IF x = <<>> THEN Unknown ELSE x

\* if context["purpose"] not in allowed_purposes: context["purpose"] = "Unknown"
ValidPurpose(purpose) ==
    IF purpose \notin allowed_purposes THEN Unknown ELSE purpose

\* The body of the try block after chat has returned raw: json.loads and the
\* cleaning of the three fields. status is "return", or the exception raised:
\* json.loads raises JSONDecodeError on text that is not JSON; .get on a value
\* that is no dict and .strip on a value that is no str raise AttributeError.
ContextClean(raw) ==
    IF raw.kind = "text" THEN [status |-> "JSONDecodeError", context |-> AllUnknown]
    ELSE IF raw.kind # "dict" \/ \E k \in Keys : Get(raw, k).type # "str"
         THEN [status |-> "AttributeError", context |-> AllUnknown]
         ELSE [status |-> "return",
               context |->
                   [topic |-> OrUnknown(Strip(Get(raw, "topic").s)),
                    region |-> OrUnknown(Strip(Get(raw, "region").s)),
                    purpose |-> ValidPurpose(Lower(Strip(Get(raw, "purpose").s)))]]

\* What the loop of identify_context does with the outcome of attempt number
\* attempt: except (json.JSONDecodeError, ValueError) catches the first status
\* only.
IdentifyAttempt(attempt, status) ==
    CASE status = "return" -> "return"
      [] status = "JSONDecodeError" ->
            IF attempt = FinalAttempt THEN "return_unknown" ELSE "sleep"
      [] OTHER -> "raise"

\* idc: one call of identify_context(slides). calls counts the calls of chat,
\* requests the requests they sent, raws lists the texts chat returned.
IdentifyDecks == {Numbered(d) : d \in DecksUpTo(1)}

IdentifyInit ==
    /\ idc \in {[pc |-> "call", slides |-> d, user |-> <<>>, attempt |-> 0,
                 chat_attempt |-> 0, calls |-> 0, requests |-> 0, raws |-> <<>>,
                 context |-> AllUnknown, error |-> "none"] : d \in IdentifyDecks}
    /\ gw = <<>> /\ sp = <<>> /\ pr = <<>>
    /\ AppIdle

\* raw = chat(system_prompt, "SLIDE CONTENT:\n\n" + "\n".join(context_blocks))
IdentifyCall ==
    /\ idc.pc = "call"
    /\ idc.attempt < IdentifyAttempts
    /\ idc' = [idc EXCEPT !.pc = "chat",
                          !.user = ContextBlocks(idc.slides),
                          !.chat_attempt = 0,
                          !.calls = @ + 1]

\* a request of that call fails: chat sleeps and retries, or raises, and
\* nothing in identify_context catches it
IdentifyRequestFail(e) ==
    /\ idc.pc = "chat"
    /\ LET next == ChatAttempt(idc.chat_attempt, DefaultMaxAttempts, FALSE)
       IN  idc' = [idc EXCEPT !.requests = @ + 1,
                              !.pc = IF next = "raise" THEN "raised" ELSE "chat_sleep",
                              !.error = IF next = "raise" THEN e ELSE @]

IdentifyChatSleep ==
    /\ idc.pc = "chat_sleep"
    /\ idc' = [idc EXCEPT !.chat_attempt = @ + 1, !.pc = "chat"]

\* a request of that call succeeds: chat returns raw and the try block goes on
IdentifyResponse(raw) ==
    /\ idc.pc = "chat"
    /\ LET got == ContextClean(raw)
           next == IdentifyAttempt(idc.attempt, got.status)
       IN  idc' = [idc EXCEPT
                     !.requests = @ + 1,
                     !.raws = Append(@, raw),
                     !.pc = CASE next = "sleep" -> "sleep"
                              [] next = "raise" -> "raised"
                              [] OTHER -> "returned",
                     !.context = IF next = "return" THEN got.context ELSE AllUnknown,
                     !.error = IF next = "raise" THEN got.status ELSE @]

\* time.sleep(1), then the next attempt
IdentifySleep ==
    /\ idc.pc = "sleep"
    /\ idc' = [idc EXCEPT !.attempt = @ + 1, !.pc = "call"]

IdentifyNext ==
    \/ IdentifyCall /\ UNCHANGED <<gw, sp, pr, app>>
    \/ \E e \in Errors : IdentifyRequestFail(e) /\ UNCHANGED <<gw, sp, pr, app>>
    \/ IdentifyChatSleep /\ UNCHANGED <<gw, sp, pr, app>>
    \/ \E raw \in ContextResponses : IdentifyResponse(raw) /\ UNCHANGED <<gw, sp, pr, app>>
    \/ IdentifySleep /\ UNCHANGED <<gw, sp, pr, app>>

SpecIdentify == IdentifyInit /\ [][IdentifyNext]_vars

\* C2: whatever texts the Gateway returns, identify_context returns a context
\* (it does not raise), and the purpose of that context is one of the seven
\* allowed values or "Unknown".
IdentifyAlwaysReturns ==
    /\ idc.pc = "raised" => idc.error \in Errors
    /\ idc.pc = "returned" => idc.context.purpose \in allowed_purposes \cup {Unknown}

\* A response that parses and has its three fields, each a string
Complete(raw) ==
    /\ raw.kind = "dict"
    /\ \A k \in Keys : raw.fields[k].type = "str"

\* C3: at most 3 calls of the Gateway; a validation failure never reaches the
\* caller; every response followed by another attempt failed to parse or had
\* missing or invalid fields; identify_context returns at the first complete
\* response, and otherwise only after 3 failed attempts, with the all-"Unknown"
\* context.
IdentifyRetriesThenDegrades ==
    /\ idc.calls <= IdentifyAttempts
    /\ idc.pc = "raised" => idc.error \in Errors
    /\ \A k \in 1..(Len(idc.raws) - 1) : ~Complete(idc.raws[k])
    /\ idc.pc = "sleep" => ~Complete(idc.raws[Len(idc.raws)])
    /\ idc.pc = "returned" =>
          \/ Complete(idc.raws[Len(idc.raws)])
          \/ idc.calls = IdentifyAttempts /\ idc.context = AllUnknown

(***************************************************************************)
(* extract_slide_data                                                      *)
(***************************************************************************)
NonBlank(t) == Strip(t) # <<>>

\* sep.join(texts)
RECURSIVE Join(_, _)
Join(texts, sep) ==
    IF texts = <<>> THEN <<>>
    ELSE IF Len(texts) = 1 THEN texts[1]
         ELSE texts[1] \o sep \o Join(Tail(texts), sep)

\* notes += sh.text + "\n", for each notes shape
RECURSIVE Lines(_)
Lines(texts) ==
    IF texts = <<>> THEN <<>> ELSE texts[1] \o <<"\n">> \o Lines(Tail(texts))

\* A presentation is the sequence of its slides, each with the texts of its
\* shapes and of the shapes of its notes slide (none: no notes slide).
extract_slide_data(prs) ==
    [k \in 1..Len(prs) |->
        LET text == SelectSeq(prs[k].shapes, NonBlank)
            notes == Lines(SelectSeq(prs[k].notes, NonBlank))
        IN  [slide_number |-> k,
             slide_text |-> Join(text, <<"\n">>),
             notes_text |-> Strip(notes),
             has_notes |-> Strip(notes) # <<>>]]

(***************************************************************************)
(* main: one session of the application                                    *)
(***************************************************************************)
MaxMessages == 1

Presentations ==
    {<<>>,
     <<[shapes |-> <<TitleText>>, notes |-> <<>>]>>,
     <<[shapes |-> <<PlainText, <<" ">>, AgendaText>>, notes |-> <<NotesText, <<"\n">>>>],
       [shapes |-> <<>>, notes |-> <<NotesText>>]>>}

Names == {"a.pptx", "b.pptx"}

Uploads == [name : Names, presentation : Presentations]

Events == {"render", "analyze", "topic", "visual", "ask"}

KeyPointCompletions ==
    {<<"1", ".", "a", " ", "2", ".", "b">>, <<"1", ".", "a", " ", "2", ".", "b", "\n">>}

MainContextResponses ==
    {NotJson, JsonList,
     JsonDict(Str(<<"a", "i">>), Str(<<"e", "u">>), Str(<<" ", "P", "i", "t", "c", "h">>))}

TypedTopic == <<"a", "i">>

Question == <<"q">>

SummarizeSites ==
    {"identify_context", "deck_summary", "key_point", "suggest_layout",
     "suggest_chart_type"}

CallSites == SummarizeSites \cup {"generate_image_prompt", "chatbot"}

\* dict operations
Has(d, k) == k \in DOMAIN d

Put(d, k, v) == (k :> v) @@ d

\* f"visual_{idx}"
VisualKey(idx) == <<"visual_0", "visual_1", "visual_2">>[idx + 1]

\* st.session_state.get("_current_file") != ppt.name
NewFileAlways(s, f) == TRUE

NewFile(s, f) == ~Has(s, "_current_file") \/ s["_current_file"] # f.name

\* if new file: st.session_state.clear(); st.session_state._current_file = ppt.name
Cleared(s, f) == IF NewFile(s, f) THEN Put(EmptyDict, "_current_file", f.name) ELSE s

\* The values the slide selector can give: an index of slides, and 0 (or None)
\* when there is no slide.
Selectable(slides) == IF slides = <<>> THEN {0} ELSE 0..(Len(slides) - 1)

MessageCount(s) == IF Has(s, "messages") THEN Len(s["messages"]) ELSE 0

\* The handler ends: by falling off the end or return.
Return(s, ev) ==
    /\ session' = s
    /\ pc' = "idle"
    /\ frame' = EmptyFrame
    /\ last' = "return"

\* The handler ends by an exception raised at site, which nothing catches.
RaiseKeepingPartial(s, ev, site, e) ==
    /\ session' = IF site \in SummarizeSites
                  THEN Put(s, "summaries",
                           <<frame.deck_summary, frame.ctx, frame.slide_sums,
                             frame.design_notes, frame.layouts, frame.charts>>)
                  ELSE s
    /\ pc' = "idle"
    /\ frame' = EmptyFrame
    /\ last' = e

Raise(s, ev, site, e) ==
    /\ session' = s
    /\ pc' = "idle"
    /\ frame' = EmptyFrame
    /\ last' = e

\* The handler calls chat at site and waits for the Gateway.
Call(s, fr, ev, site) ==
    /\ session' = s
    /\ pc' = site
    /\ frame' = [fr EXCEPT !.attempt = 0]
    /\ last' = "running"

Logged(r, site, slide) == [r EXCEPT !.log = Append(@, [fn |-> site, slide |-> slide])]

\* display_context: a topic typed into the text input replaces "Unknown"
WithTopic(s, ev) ==
    IF ev = "topic" /\ s["summaries"][2].topic = Unknown
    THEN Put(s, "summaries", [s["summaries"] EXCEPT ![2].topic = TypedTopic])
    ELSE s

\* Lines 318 to 411 of main, session["summaries"] being set: the result is
\* unpacked and shown for the selected slide, then the visual and chatbot
\* sections.
Render(s0, slides, ev, idx) ==
    LET s == WithTopic(s0, ev)
        result == s["summaries"]
        fr == [EmptyFrame EXCEPT !.slides = slides, !.ev = ev, !.idx = idx]
        s_msg == IF Has(s, "messages") THEN s ELSE Put(s, "messages", <<>>)
    IN  IF idx >= Len(slides) \/ \E j \in 3..6 : idx >= Len(result[j])
        THEN Raise(s, ev, "none", "IndexError")
        ELSE IF ev = "visual"
             THEN Call(s, fr, ev, "generate_image_prompt")
             ELSE IF ev = "ask"
                  THEN Call(Put(s_msg, "messages",
                                Append(s_msg["messages"],
                                       [role |-> "user", content |-> Question])),
                            fr, ev, "chatbot")
                  ELSE Return(s_msg, ev)

\* summarize_deck(slides) begins: ctx = identify_context(slides), from its
\* cache if it is there, and then the deck summary call.
SummarizeStart(s, slides, ev, idx) ==
    LET fr == [EmptyFrame EXCEPT !.slides = slides, !.ev = ev, !.idx = idx]
        r == [NoRun EXCEPT !.state = "running", !.slides = slides]
    IN  IF Has(cache.identify_context, slides)
        THEN /\ Call(s, [fr EXCEPT !.ctx = cache.identify_context[slides]], ev,
                     "deck_summary")
             /\ run' = Logged([r EXCEPT !.ctx_cached = TRUE], "deck_summary", 0)
        ELSE /\ Call(s, fr, ev, "identify_context")
             /\ run' = Logged(r, "identify_context", 0)

\* One run of main(), set off by an upload (or removal) of a file or by one
\* widget event, with the file uploader holding f and the slide selector idx.
Main(f, ev, idx) ==
    /\ pc = "idle"
    /\ f # uploader => ev = "render"
    /\ ev = "ask" => MessageCount(session) < MaxMessages
    /\ uploader' = f
    /\ IF f = NoFile
       THEN /\ Return(session, ev)
            /\ UNCHANGED <<cache, origin>>
            /\ run' = NoRun
       ELSE LET s == Cleared(session, f)
                slides == extract_slide_data(f.presentation)
            IN  /\ idx \in Selectable(slides)
                /\ IF ev = "analyze" \/ Has(s, "summaries")
                   THEN IF ~Has(s, "summaries")
                        THEN IF Has(cache.summarize_deck, slides)
                             THEN /\ Render(Put(s, "summaries", cache.summarize_deck[slides]),
                                            slides, ev, idx)
                                  /\ origin' = <<slides>>
                                  /\ run' = [NoRun EXCEPT !.state = "cached", !.slides = slides]
                                  /\ cache' = cache
                             ELSE /\ SummarizeStart(s, slides, ev, idx)
                                  /\ origin' = <<>>
                                  /\ cache' = cache
                        ELSE /\ Render(s, slides, ev, idx)
                             /\ UNCHANGED <<cache, origin>>
                             /\ run' = NoRun
                   ELSE /\ Return(s, ev)
                        /\ origin' = <<>>
                        /\ run' = NoRun
                        /\ cache' = cache

\* A request of the call in progress fails: chat sleeps and sends another, or
\* re-raises, and neither summarize_deck nor main catches it.
RequestFail(e) ==
    /\ pc \in CallSites
    /\ IF ChatAttempt(frame.attempt, DefaultMaxAttempts, FALSE) = "sleep"
       THEN /\ frame' = [frame EXCEPT !.attempt = @ + 1]
            /\ run' = IF pc \in SummarizeSites THEN [run EXCEPT !.retried = TRUE] ELSE run
            /\ UNCHANGED <<session, pc, last>>
       ELSE /\ Raise(session, frame.ev, pc, e)
            /\ run' = IF pc \in SummarizeSites THEN [run EXCEPT !.state = "failed"] ELSE run
    /\ UNCHANGED <<uploader, cache, origin>>

\* return deck_summary, ctx, slide_sums, design_notes, layouts, charts: the
\* result goes to the cache of summarize_deck and to session["summaries"], and
\* main goes on to show it.
SummarizeReturn(fr) ==
    LET result == <<fr.deck_summary, fr.ctx, fr.slide_sums, fr.design_notes,
                    fr.layouts, fr.charts>>
    IN  /\ cache' = [cache EXCEPT !.summarize_deck = Put(@, fr.slides, result)]
        /\ origin' = <<fr.slides>>
        /\ run' = [run EXCEPT !.state = "done", !.returned = @ + 1]
        /\ Render(Put(session, "summaries", result), fr.slides, fr.ev, fr.idx)

\* The call after the one at site, within the loop body for one slide
SlideStepSkipsLayout(site) ==
    CASE site = "key_point" -> "suggest_chart_type"
      [] site = "suggest_layout" -> "suggest_chart_type"
      [] OTHER -> "next"

SlideStep(site) ==
    CASE site = "key_point" -> "suggest_layout"
      [] site = "suggest_layout" -> "suggest_chart_type"
      [] OTHER -> "next"

\* The loop over slides goes on after the call at pc has returned: the next
\* call for this slide, the key point call of the next slide, or the return.
SlideNext(fr) ==
    LET i == Len(fr.slide_sums)
        step == SlideStep(pc)
    IN  IF step # "next"
        THEN /\ Call(session, fr, fr.ev, step)
             /\ run' = Logged([run EXCEPT !.returned = @ + 1], step, i)
             /\ UNCHANGED <<cache, origin>>
        ELSE IF i < Len(fr.slides)
             THEN /\ Call(session, fr, fr.ev, "key_point")
                  /\ run' = Logged([run EXCEPT !.returned = @ + 1], "key_point", i + 1)
                  /\ UNCHANGED <<cache, origin>>
             ELSE SummarizeReturn(fr)

\* The chat call of identify_context returns raw
ContextResponse(raw) ==
    /\ pc = "identify_context"
    /\ LET got == ContextClean(raw)
           next == IdentifyAttempt(frame.ident_attempt, got.status)
           ctx == IF next = "return" THEN got.context ELSE AllUnknown
       IN  CASE next = "sleep" ->
                  /\ Call(session, [frame EXCEPT !.ident_attempt = @ + 1], frame.ev,
                          "identify_context")
                  /\ run' = Logged([run EXCEPT !.returned = @ + 1, !.retried = TRUE],
                                   "identify_context", 0)
                  /\ cache' = cache
             [] next = "raise" ->
                  /\ Raise(session, frame.ev, pc, got.status)
                  /\ run' = [run EXCEPT !.state = "failed"]
                  /\ cache' = cache
             [] OTHER ->
                  /\ Call(session, [frame EXCEPT !.ctx = ctx], frame.ev, "deck_summary")
                  /\ run' = Logged([run EXCEPT !.returned = @ + 1], "deck_summary", 0)
                  /\ cache' = [cache EXCEPT
                                 !.identify_context = Put(@, frame.slides, ctx)]
    /\ UNCHANGED <<uploader, origin>>

\* deck_summary = chat(...) returns
DeckSummaryResponse(c) ==
    /\ pc = "deck_summary"
    /\ SlideNext([frame EXCEPT !.deck_summary = Strip(c)])
    /\ UNCHANGED uploader

\* resp = chat(...) returns for a slide: the key point and the design tip
KeyPointResponse(c) ==
    /\ pc = "key_point"
    /\ SlideNext([frame EXCEPT !.slide_sums = Append(@, KeyPoint(Strip(c))),
                               !.design_notes = Append(@, DesignTip(Strip(c)))])
    /\ UNCHANGED uploader

\* layouts.append(suggest_layout(prompt))
LayoutResponse(c) ==
    /\ pc = "suggest_layout"
    /\ SlideNext([frame EXCEPT !.layouts = Append(@, Strip(c))])
    /\ UNCHANGED uploader

\* charts.append(suggest_chart_type(prompt))
ChartResponse(c) ==
    /\ pc = "suggest_chart_type"
    /\ SlideNext([frame EXCEPT !.charts = Append(@, Strip(c))])
    /\ UNCHANGED uploader

\* st.session_state[f"visual_{idx}"] = generate_image_prompt(...), and the
\* chatbot section after it
VisualResponse(c) ==
    /\ pc = "generate_image_prompt"
    /\ LET s == Put(session, VisualKey(frame.idx), Strip(c))
       IN  Return(IF Has(s, "messages") THEN s ELSE Put(s, "messages", <<>>), frame.ev)
    /\ UNCHANGED <<uploader, cache, run, origin>>

\* response = chat(...) returns in the chatbot section
ChatbotResponse(c) ==
    /\ pc = "chatbot"
    /\ Return(Put(session, "messages",
                  Append(session["messages"],
                         [role |-> "assistant", content |-> Strip(c)])),
              frame.ev)
    /\ UNCHANGED <<uploader, cache, run, origin>>

Init == AppIdle /\ gw = <<>> /\ sp = <<>> /\ pr = <<>> /\ idc = <<>>

Next ==
    \/ \E f \in Uploads \cup {NoFile}, ev \in Events, idx \in 0..2 :
          Main(f, ev, idx) /\ UNCHANGED pure
    \/ \E e \in Errors : RequestFail(e) /\ UNCHANGED pure
    \/ \E raw \in MainContextResponses : ContextResponse(raw) /\ UNCHANGED pure
    \/ \E c \in Completions : DeckSummaryResponse(c) /\ UNCHANGED pure
    \/ \E c \in KeyPointCompletions : KeyPointResponse(c) /\ UNCHANGED pure
    \/ \E c \in Completions : LayoutResponse(c) /\ UNCHANGED pure
    \/ \E c \in Completions : ChartResponse(c) /\ UNCHANGED pure
    \/ \E c \in Completions : VisualResponse(c) /\ UNCHANGED pure
    \/ \E c \in Completions : ChatbotResponse(c) /\ UNCHANGED pure

Spec == Init /\ [][Next]_vars

\* The slides of the file the uploader holds
CurrentSlides == extract_slide_data(uploader.presentation)

PerSlide(result) == {result[j] : j \in 3..6}

\* The call that the latest summarize_deck run started last
LastCall == run.log[Len(run.log)]

\* C4: when a Gateway call of summarize_deck has failed for good, whichever
\* call it is, the handler has ended with that failure, neither the session
\* nor the cache of summarize_deck holds a result, partial or whole, and
\* pressing Analyze for the same file starts the analysis again.
AllOrNothing ==
    (run.state = "failed" /\ last \in Errors) =>
        /\ pc = "idle"
        /\ ~Has(session, "summaries")
        /\ ~Has(cache.summarize_deck, run.slides)
        /\ run.slides = CurrentSlides
        /\ ENABLED (Main(uploader, "analyze", 0) /\ pc' \in SummarizeSites)

\* The chart call of the second slide has failed twice
FailedAtLastCall ==
    /\ run.state = "failed"
    /\ last \in Errors
    /\ Len(run.slides) = 2
    /\ LastCall = [fn |-> "suggest_chart_type", slide |-> 2]

\* A result with the topic put aside, which display_context may fill in
SameAnalysis(r1, r2) == [r1 EXCEPT ![2].topic = Unknown] = [r2 EXCEPT ![2].topic = Unknown]

\* C5: once session["summaries"] is set, no step of a handler run on a file of
\* that name starts a call of summarize_deck or adds to its call log, and the
\* memoized result stays in the session.
MemoizedNoCalls ==
    [][(Has(session, "summaries") /\ uploader'.name = session["_current_file"]) =>
          /\ pc' \notin SummarizeSites
          /\ run'.log = <<>> \/ run' = run
          /\ Has(session', "summaries")
          /\ SameAnalysis(session'["summaries"], session["summaries"])]_vars

\* A handler after the one that analysed has ended: the result is still
\* memoized and that handler made no call of summarize_deck
RerunAfterAnalysis ==
    /\ pc = "idle"
    /\ uploader # NoFile
    /\ Has(session, "summaries")
    /\ origin = <<CurrentSlides>>
    /\ Len(CurrentSlides) = 2
    /\ run = NoRun
    /\ last = "return"

\* C6: the session never holds a result computed from another file than the
\* one the uploader holds; with it go the visual prompts and the transcript,
\* which exist only beside a result.
NoStaleResult ==
    /\ (DOMAIN session \ {"_current_file"}) # {} => Has(session, "summaries")
    /\ (uploader # NoFile /\ Has(session, "summaries")) => origin = <<CurrentSlides>>

\* C7: a result that summarize_deck has returned has one entry per slide it was
\* given in each per-slide sequence, and so has the result held in the session
\* for the slides of the current file.
OneEntryPerSlide ==
    /\ \A d \in DOMAIN cache.summarize_deck :
          \A q \in PerSlide(cache.summarize_deck[d]) : Len(q) = Len(d)
    /\ (uploader # NoFile /\ Has(session, "summaries")) =>
          \A q \in PerSlide(session["summaries"]) : Len(q) = Len(CurrentSlides)

\* The calls of summarize_deck for n slides after the context step, in order
RECURSIVE SlideCalls(_)
SlideCalls(n) ==
    IF n = 0 THEN <<>>
    ELSE SlideCalls(n - 1) \o <<[fn |-> "key_point", slide |-> n],
                                [fn |-> "suggest_layout", slide |-> n],
                                [fn |-> "suggest_chart_type", slide |-> n]>>

ContextCall == [fn |-> "identify_context", slide |-> 0]

AfterContext(n) == <<[fn |-> "deck_summary", slide |-> 0]>> \o SlideCalls(n)

IsPrefix(a, b) == Len(a) <= Len(b) /\ SubSeq(b, 1, Len(a)) = a

\* The log without the repeated attempts of the context step
RECURSIVE Attempted(_)
Attempted(log) ==
    IF Len(log) >= 2 /\ log[1] = ContextCall /\ log[2] = ContextCall
    THEN Attempted(Tail(log))
    ELSE log

\* Each call is started after the one before it has returned
OneAtATime ==
    /\ run.state = "running" => Len(run.log) = run.returned + 1
    /\ run.state = "done" => Len(run.log) = run.returned

\* C9 as stated: the calls of a run are the context call, the deck summary call
\* and the three calls of each slide, in this order and one at a time; a run
\* that ends without a retry has made 3N + 2 of them.
CallsAsStated ==
    LET expected == <<ContextCall>> \o AfterContext(Len(run.slides))
    IN  /\ OneAtATime
        /\ run.state \in {"running", "failed"} => IsPrefix(Attempted(run.log), expected)
        /\ run.state = "done" => Attempted(run.log) = expected
        /\ (run.state = "done" /\ ~run.retried) =>
              Len(run.log) = 3 * Len(run.slides) + 2

\* C9 amended: as stated when summarize_deck runs and identify_context has to
\* compute the context; when the cache of identify_context holds the context of
\* these slides (from an earlier run that failed after the context step) no
\* context call is made, and a run that ends without a retry has made 3N + 1
\* calls; and a call of summarize_deck answered from its own cache makes none.
CallsAsCoded ==
    LET expected == (IF run.ctx_cached THEN <<>> ELSE <<ContextCall>>)
                        \o AfterContext(Len(run.slides))
    IN  /\ OneAtATime
        /\ run.state = "cached" => run.log = <<>>
        /\ run.state \in {"running", "failed"} => IsPrefix(Attempted(run.log), expected)
        /\ run.state = "done" => Attempted(run.log) = expected
        /\ (run.state = "done" /\ ~run.retried) =>
              Len(run.log) = 3 * Len(run.slides) + (IF run.ctx_cached THEN 1 ELSE 2)

\* A run over 2 slides that took the context from the cache: 7 calls
SevenCalls ==
    /\ run.state = "done"
    /\ ~run.retried
    /\ run.ctx_cached
    /\ Len(run.slides) = 2
    /\ Len(run.log) = 7

====
